---- MODULE Spec2Model ----
(***************************************************************************)
(* ContentAppAttributeDelegate::Read                                       *)
(* (examples/tv-app/android/java/ContentAppAttributeDelegate.cpp).         *)
(*                                                                         *)
(* Each thread of the Matter stack may be inside one Read at a time; the   *)
(* program counter of a thread is the source line it is about to execute.  *)
(* Every interaction with the JNI environment and every diagnostic of the  *)
(* current call is appended to the thread's trace.                         *)
(*                                                                         *)
(* 32-bit unsigned identifiers (ClusterId, AttributeId) are kept as two    *)
(* 16-bit halves [hi, lo]; a jint is a signed integer in -2^31 .. 2^31-1.  *)
(* A host (Java) string is a sequence of UTF-16 code units; a native       *)
(* string is a sequence of bytes.                                          *)
(***************************************************************************)
EXTENDS Integers, Sequences, FiniteSets, TLC

\* Longest host text the host method answers with.
MaxTextLen == 1

\* Entries a thread's local reference table may hold when Read is entered.
MaxLocalRefs == 2

Threads == {1, 2}

\* Values of FIXED_ENDPOINT_COUNT the build may be configured with.
FixedEndpointCounts == {1, 5}

U32(hi, lo) == [hi |-> hi, lo |-> lo]

\* chip::app::ConcreteReadAttributePath
ConcreteReadAttributePath(e, c, a) ==
    [mEndpointId |-> e, mClusterId |-> c, mAttributeId |-> a]

Paths ==
    { ConcreteReadAttributePath(0, U32(0, 6), U32(0, 0)),
      ConcreteReadAttributePath(1, U32(0, 40), U32(32768, 0)),
      ConcreteReadAttributePath(4, U32(0, 1292), U32(32767, 65535)),
      ConcreteReadAttributePath(5, U32(0, 40), U32(0, 0)),
      ConcreteReadAttributePath(10, U32(0, 1291), U32(65533, 0)),
      ConcreteReadAttributePath(65535, U32(0, 65535), U32(65535, 65535)) }

NoPath == ConcreteReadAttributePath(0, U32(0, 0), U32(0, 0))

\* UTF-16 code units of host texts: NUL (two bytes in modified UTF-8),
\* 'o' (one byte), the euro sign (three bytes).
JavaChars == {0, 111, 8364}

RECURSIVE SeqsUpTo(_, _)
SeqsUpTo(S, n) ==
    IF n = 0 THEN {<<>>}
    ELSE LET shorter == SeqsUpTo(S, n - 1)
         IN  shorter \cup {Append(s, c) : s \in {x \in shorter : Len(x) = n - 1}, c \in S}

HostTexts == SeqsUpTo(JavaChars, MaxTextLen)

\* What the host's read-attribute method does when called.
HostReplies ==
    {[kind |-> "exception", text |-> <<>>], [kind |-> "null", text |-> <<>>]}
        \cup {[kind |-> "text", text |-> s] : s \in HostTexts}

NoReply == [kind |-> "none", text |-> <<>>]

\* A jstring: the null reference or a local reference to a host string.
NullRef == [null |-> TRUE, text |-> <<>>]
LocalRef(s) == [null |-> FALSE, text |-> s]

\* A const char * into a buffer of the foreign runtime.
NoChars == [state |-> "unset", bytes |-> <<>>]

\* Contents a std::string may end up with when its construction is undefined.
IndeterminateStrings == {<<>>, <<63>>}

Ev(op, target, args) == [op |-> op, target |-> target, args |-> args]
NoTarget == <<"", "">>

VARIABLES
    fixedEndpointCount,          \* FIXED_ENDPOINT_COUNT of the build
    mContentAppEndpointManager,  \* the held host handle
    mReadAttributeMethod,        \* the held method id
    alive,                       \* the process has not crashed
    pc,                          \* per thread: source line about to execute
    aPath,                       \* per thread: argument of the current Read
    hostReply,                   \* per thread: what the host did in this call
    env,                         \* per thread: contexts obtained by this call, not released
    exceptionPending,            \* per thread: JNI pending exception
    resp,                        \* per thread: local `resp`
    respStr,                     \* per thread: local `respStr` and its buffer
    retStr,                      \* per thread: local `retStr`
    result,                      \* per thread: value returned by Read
    localRefs,                   \* per thread: entries in the local reference table
    utfBuffers,                  \* per thread: character buffers not yet released
    entryRefs,                   \* per thread: <<localRefs, utfBuffers>> at entry
    trace                        \* per thread: JNI calls and diagnostics of this call

vars == <<fixedEndpointCount, mContentAppEndpointManager, mReadAttributeMethod,
          alive, pc, aPath, hostReply, env, exceptionPending, resp, respStr,
          retStr, result, localRefs, utfBuffers, entryRefs, trace>>

held == <<fixedEndpointCount, mContentAppEndpointManager, mReadAttributeMethod>>

----------------------------------------------------------------------------
(* Pure conversions *)

\* static_cast<jint> of a 32-bit unsigned value: same 32 bits, two's complement.
static_cast_jint_saturating(v) ==
    IF v.hi >= 32768 THEN 32767 * 65536 + 65535 ELSE v.hi * 65536 + v.lo

static_cast_jint(v) ==
    IF v.hi >= 32768 THEN (v.hi - 65536) * 65536 + v.lo ELSE v.hi * 65536 + v.lo

\* The arguments of the host call, in call order.
CallArgsSwapped(p) ==
    << static_cast_jint(p.mClusterId), static_cast_jint(U32(0, p.mEndpointId)),
       static_cast_jint(p.mAttributeId) >>

CallArgs(p) ==
    << static_cast_jint(U32(0, p.mEndpointId)), static_cast_jint(p.mClusterId),
       static_cast_jint(p.mAttributeId) >>

\* aPath.mEndpointId < FIXED_ENDPOINT_COUNT
IsStaticEndpointOffByOne(endpointId, count) == endpointId < count - 1

IsStaticEndpoint(endpointId, count) == endpointId < count

\* Modified UTF-8 of one UTF-16 code unit (JNI GetStringUTFChars).
ModifiedUTF8Char(c) ==
    IF c >= 1 /\ c <= 127 THEN <<c>>
    ELSE IF c <= 2047 THEN <<192 + (c \div 64), 128 + (c % 64)>>
    ELSE <<224 + (c \div 4096), 128 + ((c \div 64) % 64), 128 + (c % 64)>>

RECURSIVE ModifiedUTF8(_)
ModifiedUTF8(s) ==
    IF s = <<>> THEN <<>> ELSE ModifiedUTF8Char(Head(s)) \o ModifiedUTF8(Tail(s))

\* The NUL-terminated buffer GetStringUTFChars hands out.
UTFChars(s) == ModifiedUTF8(s) \o <<0>>

\* std::string(const char *): the bytes up to the first NUL.
RECURSIVE StdStringAsciiOnly(_)
StdStringAsciiOnly(cstr) ==
    IF cstr = <<>> \/ Head(cstr) = 0 \/ Head(cstr) > 127 THEN <<>>
    ELSE <<Head(cstr)>> \o StdStringAsciiOnly(Tail(cstr))

RECURSIVE StdString(_)
StdString(cstr) ==
    IF cstr = <<>> \/ Head(cstr) = 0 THEN <<>>
    ELSE <<Head(cstr)>> \o StdString(Tail(cstr))

----------------------------------------------------------------------------
(* State *)

Init ==
    /\ fixedEndpointCount \in FixedEndpointCounts
    /\ mContentAppEndpointManager = "contentAppEndpointManager"
    /\ mReadAttributeMethod = "readAttribute"
    /\ alive = TRUE
    /\ pc = [t \in Threads |-> "idle"]
    /\ aPath = [t \in Threads |-> NoPath]
    /\ hostReply = [t \in Threads |-> NoReply]
    /\ env = [t \in Threads |-> 0]
    /\ exceptionPending = [t \in Threads |-> FALSE]
    /\ resp = [t \in Threads |-> NullRef]
    /\ respStr = [t \in Threads |-> NoChars]
    /\ retStr = [t \in Threads |-> <<>>]
    /\ result = [t \in Threads |-> <<>>]
    /\ localRefs = [t \in Threads |-> 0]
    /\ utfBuffers = [t \in Threads |-> 0]
    /\ entryRefs = [t \in Threads |-> <<0, 0>>]
    /\ trace = [t \in Threads |-> <<>>]

At(t, line) == alive /\ pc[t] = line
Goto(t, line) == pc' = [pc EXCEPT ![t] = line]
Record(t, e) == trace' = [trace EXCEPT ![t] = Append(@, e)]

----------------------------------------------------------------------------
(* ContentAppAttributeDelegate::Read, one action per step *)

\* The caller enters Read(aPath).
Read(t, p) ==
    /\ At(t, "idle")
    /\ localRefs[t] < MaxLocalRefs
    /\ utfBuffers[t] < MaxLocalRefs
    /\ aPath' = [aPath EXCEPT ![t] = p]
    /\ entryRefs' = [entryRefs EXCEPT ![t] = <<localRefs[t], utfBuffers[t]>>]
    /\ Goto(t, "L39")
    /\ UNCHANGED <<held, alive, hostReply, env, exceptionPending, resp, respStr,
                   retStr, result, localRefs, utfBuffers, trace>>

\* Lines 39-43: a statically compiled endpoint returns "".
ReturnBlankForStatic(t) ==
    /\ At(t, "L39")
    /\ IsStaticEndpoint(aPath[t].mEndpointId, fixedEndpointCount)
    /\ result' = [result EXCEPT ![t] = <<>>]
    /\ Goto(t, "done")
    /\ UNCHANGED <<held, alive, aPath, hostReply, env, exceptionPending, resp,
                   respStr, retStr, localRefs, utfBuffers, entryRefs, trace>>

\* Line 39, condition false: fall through to line 45.
RouteToHostSkippingEnv(t) ==
    /\ At(t, "L39")
    /\ ~IsStaticEndpoint(aPath[t].mEndpointId, fixedEndpointCount)
    /\ Goto(t, "L46")
    /\ UNCHANGED <<held, alive, aPath, hostReply, env, exceptionPending, resp,
                   respStr, retStr, result, localRefs, utfBuffers, entryRefs, trace>>

RouteToHost(t) ==
    /\ At(t, "L39")
    /\ ~IsStaticEndpoint(aPath[t].mEndpointId, fixedEndpointCount)
    /\ Goto(t, "L45")
    /\ UNCHANGED <<held, alive, aPath, hostReply, env, exceptionPending, resp,
                   respStr, retStr, result, localRefs, utfBuffers, entryRefs, trace>>

\* Line 45: JNIEnv * env = JniReferences::GetInstance().GetEnvForCurrentThread();
GetEnvForCurrentThread(t) ==
    /\ At(t, "L45")
    /\ env' = [env EXCEPT ![t] = @ + 1]
    /\ Record(t, Ev("GetEnvForCurrentThread", NoTarget, <<>>))
    /\ Goto(t, "L46")
    /\ UNCHANGED <<held, alive, aPath, hostReply, exceptionPending, resp, respStr,
                   retStr, result, localRefs, utfBuffers, entryRefs>>

\* Lines 46-47: ChipLogProgress(... endpoint %d cluster %d attribute %d ...)
LogReadCalled(t) ==
    /\ At(t, "L46")
    /\ Record(t, Ev("ChipLogProgress", NoTarget, CallArgs(aPath[t])))
    /\ Goto(t, "L49")
    /\ UNCHANGED <<held, alive, aPath, hostReply, env, exceptionPending, resp,
                   respStr, retStr, result, localRefs, utfBuffers, entryRefs>>

\* Lines 49-51: resp = (jstring) env->CallObjectMethod(handle, method, e, c, a).
\* The host throws, answers null, or answers a string (a new local reference).
CallObjectMethod(t, reply) ==
    /\ At(t, "L49")
    /\ hostReply' = [hostReply EXCEPT ![t] = reply]
    /\ Record(t, Ev("CallObjectMethod",
                    <<mContentAppEndpointManager, mReadAttributeMethod>>,
                    CallArgs(aPath[t])))
    /\ exceptionPending' = [exceptionPending EXCEPT ![t] = @ \/ reply.kind = "exception"]
    /\ resp' = [resp EXCEPT ![t] =
                   IF reply.kind = "text" THEN LocalRef(reply.text) ELSE NullRef]
    /\ localRefs' = [localRefs EXCEPT ![t] = IF reply.kind = "text" THEN @ + 1 ELSE @]
    /\ Goto(t, "L52")
    /\ UNCHANGED <<held, alive, aPath, env, respStr, retStr, result, utfBuffers,
                   entryRefs>>

\* Line 52: if (env->ExceptionCheck()), taken.
ExceptionCheckTrue(t) ==
    /\ At(t, "L52")
    /\ exceptionPending[t]
    /\ Record(t, Ev("ExceptionCheck", NoTarget, <<>>))
    /\ Goto(t, "L54")
    /\ UNCHANGED <<held, alive, aPath, hostReply, env, exceptionPending, resp,
                   respStr, retStr, result, localRefs, utfBuffers, entryRefs>>

\* Line 52: if (env->ExceptionCheck()), not taken.
ExceptionCheckFalse(t) ==
    /\ At(t, "L52")
    /\ ~exceptionPending[t]
    /\ Record(t, Ev("ExceptionCheck", NoTarget, <<>>))
    /\ Goto(t, "L60")
    /\ UNCHANGED <<held, alive, aPath, hostReply, env, exceptionPending, resp,
                   respStr, retStr, result, localRefs, utfBuffers, entryRefs>>

\* Line 54: ChipLogError(Zcl, "Java exception in ContentAppAttributeDelegate::Read");
LogJavaException(t) ==
    /\ At(t, "L54")
    /\ Record(t, Ev("ChipLogError", NoTarget, <<>>))
    /\ Goto(t, "L55")
    /\ UNCHANGED <<held, alive, aPath, hostReply, env, exceptionPending, resp,
                   respStr, retStr, result, localRefs, utfBuffers, entryRefs>>

\* Line 55: env->ExceptionDescribe();
ExceptionDescribe(t) ==
    /\ At(t, "L55")
    /\ Record(t, Ev("ExceptionDescribe", NoTarget, <<>>))
    /\ Goto(t, "L56")
    /\ UNCHANGED <<held, alive, aPath, hostReply, env, exceptionPending, resp,
                   respStr, retStr, result, localRefs, utfBuffers, entryRefs>>

\* Line 56: env->ExceptionClear();
ExceptionClearOmitted(t) ==
    /\ At(t, "L56")
    /\ Goto(t, "L58")
    /\ UNCHANGED <<held, alive, aPath, hostReply, env, exceptionPending, resp,
                   respStr, retStr, result, localRefs, utfBuffers, entryRefs, trace>>

ExceptionClear(t) ==
    /\ At(t, "L56")
    /\ exceptionPending' = [exceptionPending EXCEPT ![t] = FALSE]
    /\ Record(t, Ev("ExceptionClear", NoTarget, <<>>))
    /\ Goto(t, "L58")
    /\ UNCHANGED <<held, alive, aPath, hostReply, env, resp, respStr, retStr,
                   result, localRefs, utfBuffers, entryRefs>>

\* Line 58: return "";
ReturnBlankOnException(t) ==
    /\ At(t, "L58")
    /\ result' = [result EXCEPT ![t] = <<>>]
    /\ Goto(t, "done")
    /\ UNCHANGED <<held, alive, aPath, hostReply, env, exceptionPending, resp,
                   respStr, retStr, localRefs, utfBuffers, entryRefs, trace>>

\* Line 60: const char * respStr = env->GetStringUTFChars(resp, 0);
GetStringUTFChars(t) ==
    /\ At(t, "L60")
    /\ ~resp[t].null
    /\ respStr' = [respStr EXCEPT ![t] = [state |-> "live", bytes |-> UTFChars(resp[t].text)]]
    /\ utfBuffers' = [utfBuffers EXCEPT ![t] = @ + 1]
    /\ Record(t, Ev("GetStringUTFChars", NoTarget, <<>>))
    /\ Goto(t, "L61")
    /\ UNCHANGED <<held, alive, aPath, hostReply, env, exceptionPending, resp,
                   retStr, result, localRefs, entryRefs>>

\* Line 60 with resp == NULL. JNI leaves the call undefined; a runtime either
\* hands back a null pointer or aborts the process.
GetStringUTFCharsOfNull(t) ==
    /\ At(t, "L60")
    /\ resp[t].null
    /\ respStr' = [respStr EXCEPT ![t] = [state |-> "null", bytes |-> <<>>]]
    /\ Record(t, Ev("GetStringUTFChars", NoTarget, <<>>))
    /\ Goto(t, "L61")
    /\ UNCHANGED <<held, alive, aPath, hostReply, env, exceptionPending, resp,
                   retStr, result, localRefs, utfBuffers, entryRefs>>

GetStringUTFCharsOfNullAborts(t) ==
    /\ At(t, "L60")
    /\ resp[t].null
    /\ alive' = FALSE
    /\ Record(t, Ev("GetStringUTFChars", NoTarget, <<>>))
    /\ Goto(t, "crashed")
    /\ UNCHANGED <<held, aPath, hostReply, env, exceptionPending, resp, respStr,
                   retStr, result, localRefs, utfBuffers, entryRefs>>

\* Line 61: std::string retStr(respStr);
ConstructRetStrShared(t) ==
    /\ At(t, "L61")
    /\ respStr[t].state = "live"
    /\ retStr' = [u \in Threads |-> StdString(respStr[t].bytes)]
    /\ Record(t, Ev("std::string", NoTarget, <<>>))
    /\ Goto(t, "L62")
    /\ UNCHANGED <<held, alive, aPath, hostReply, env, exceptionPending, resp,
                   respStr, result, localRefs, utfBuffers, entryRefs>>

ConstructRetStr(t) ==
    /\ At(t, "L61")
    /\ respStr[t].state = "live"
    /\ retStr' = [retStr EXCEPT ![t] = StdString(respStr[t].bytes)]
    /\ Record(t, Ev("std::string", NoTarget, <<>>))
    /\ Goto(t, "L62")
    /\ UNCHANGED <<held, alive, aPath, hostReply, env, exceptionPending, resp,
                   respStr, result, localRefs, utfBuffers, entryRefs>>

\* Line 61 with respStr == nullptr: undefined; the string gets some contents
\* or the process faults.
ConstructRetStrFromNull(t, s) ==
    /\ At(t, "L61")
    /\ respStr[t].state = "null"
    /\ retStr' = [retStr EXCEPT ![t] = s]
    /\ Record(t, Ev("std::string", NoTarget, <<>>))
    /\ Goto(t, "L62")
    /\ UNCHANGED <<held, alive, aPath, hostReply, env, exceptionPending, resp,
                   respStr, result, localRefs, utfBuffers, entryRefs>>

ConstructRetStrFromNullFaults(t) ==
    /\ At(t, "L61")
    /\ respStr[t].state = "null"
    /\ alive' = FALSE
    /\ Record(t, Ev("std::string", NoTarget, <<>>))
    /\ Goto(t, "crashed")
    /\ UNCHANGED <<held, aPath, hostReply, env, exceptionPending, resp, respStr,
                   retStr, result, localRefs, utfBuffers, entryRefs>>

\* Line 62: env->ReleaseStringUTFChars(resp, respStr);
ReleaseStringUTFChars(t) ==
    /\ At(t, "L62")
    /\ respStr' = [respStr EXCEPT ![t].state = IF @ = "live" THEN "released" ELSE @]
    /\ utfBuffers' = [utfBuffers EXCEPT ![t] = IF respStr[t].state = "live" THEN @ - 1 ELSE @]
    /\ Record(t, Ev("ReleaseStringUTFChars", NoTarget, <<>>))
    /\ Goto(t, "L63")
    /\ UNCHANGED <<held, alive, aPath, hostReply, env, exceptionPending, resp,
                   retStr, result, localRefs, entryRefs>>

\* Line 63: env->DeleteLocalRef(resp);
DeleteLocalRefOmitted(t) ==
    /\ At(t, "L63")
    /\ Goto(t, "L64")
    /\ UNCHANGED <<held, alive, aPath, hostReply, env, exceptionPending, resp,
                   respStr, retStr, result, localRefs, utfBuffers, entryRefs, trace>>

DeleteLocalRef(t) ==
    /\ At(t, "L63")
    /\ localRefs' = [localRefs EXCEPT ![t] = IF resp[t].null THEN @ ELSE @ - 1]
    /\ Record(t, Ev("DeleteLocalRef", NoTarget, <<>>))
    /\ Goto(t, "L64")
    /\ UNCHANGED <<held, alive, aPath, hostReply, env, exceptionPending, resp,
                   respStr, retStr, result, utfBuffers, entryRefs>>

\* Line 64: ChipLogProgress(Zcl, "... got response %s", respStr);
\* respStr is read here. Once released (or null) the read is undefined: the
\* diagnostic shows some bytes, or the process faults.
LogResponse(t) ==
    /\ At(t, "L64")
    /\ Record(t, Ev("ChipLogProgress %s respStr", NoTarget, <<>>))
    /\ Goto(t, "L65")
    /\ UNCHANGED <<held, alive, aPath, hostReply, env, exceptionPending, resp,
                   respStr, retStr, result, localRefs, utfBuffers, entryRefs>>

LogResponseFaults(t) ==
    /\ At(t, "L64")
    /\ respStr[t].state # "live"
    /\ alive' = FALSE
    /\ Record(t, Ev("ChipLogProgress %s respStr", NoTarget, <<>>))
    /\ Goto(t, "crashed")
    /\ UNCHANGED <<held, aPath, hostReply, env, exceptionPending, resp, respStr,
                   retStr, result, localRefs, utfBuffers, entryRefs>>

\* Line 65: return retStr;
ReturnRetStr(t) ==
    /\ At(t, "L65")
    /\ result' = [result EXCEPT ![t] = retStr[t]]
    /\ Goto(t, "done")
    /\ UNCHANGED <<held, alive, aPath, hostReply, env, exceptionPending, resp,
                   respStr, retStr, localRefs, utfBuffers, entryRefs, trace>>

\* The caller has the value; the locals of the call are gone.
Complete(t) ==
    /\ At(t, "done")
    /\ aPath' = [aPath EXCEPT ![t] = NoPath]
    /\ hostReply' = [hostReply EXCEPT ![t] = NoReply]
    /\ env' = [env EXCEPT ![t] = 0]
    /\ resp' = [resp EXCEPT ![t] = NullRef]
    /\ respStr' = [respStr EXCEPT ![t] = NoChars]
    /\ retStr' = [retStr EXCEPT ![t] = <<>>]
    /\ result' = [result EXCEPT ![t] = <<>>]
    /\ entryRefs' = [entryRefs EXCEPT ![t] = <<0, 0>>]
    /\ trace' = [trace EXCEPT ![t] = <<>>]
    /\ Goto(t, "idle")
    /\ UNCHANGED <<held, alive, exceptionPending, localRefs, utfBuffers>>

Next ==
    \E t \in Threads :
        \/ \E p \in Paths : Read(t, p)
        \/ ReturnBlankForStatic(t)
        \/ RouteToHost(t)
        \/ GetEnvForCurrentThread(t)
        \/ LogReadCalled(t)
        \/ \E reply \in HostReplies : CallObjectMethod(t, reply)
        \/ ExceptionCheckTrue(t)
        \/ ExceptionCheckFalse(t)
        \/ LogJavaException(t)
        \/ ExceptionDescribe(t)
        \/ ExceptionClear(t)
        \/ ReturnBlankOnException(t)
        \/ GetStringUTFChars(t)
        \/ GetStringUTFCharsOfNull(t)
        \/ GetStringUTFCharsOfNullAborts(t)
        \/ ConstructRetStr(t)
        \/ \E s \in IndeterminateStrings : ConstructRetStrFromNull(t, s)
        \/ ConstructRetStrFromNullFaults(t)
        \/ ReleaseStringUTFChars(t)
        \/ DeleteLocalRef(t)
        \/ LogResponse(t)
        \/ LogResponseFaults(t)
        \/ ReturnRetStr(t)
        \/ Complete(t)

Spec == Init /\ [][Next]_vars

----------------------------------------------------------------------------
(* Properties *)

CountOp(tr, op) == Cardinality({i \in DOMAIN tr : tr[i].op = op})

\* The 32 bits of a jint, read as unsigned.
AsUnsigned32(j) == U32((j \div 65536) % 65536, j % 65536)

BeforeCall == {"L39", "L45", "L46", "L49"}

InDynamicRead(t) == pc[t] # "idle" /\ aPath[t].mEndpointId >= fixedEndpointCount

InStaticRead(t) == pc[t] # "idle" /\ aPath[t].mEndpointId < fixedEndpointCount

\* Steps that touch the returned text object or its character buffer.
TextAccessOps ==
    {"GetStringUTFChars", "std::string", "ReleaseStringUTFChars", "DeleteLocalRef",
     "ChipLogProgress %s respStr"}

\* Steps that read the bytes respStr points to.
BufferReadOps == {"std::string", "ChipLogProgress %s respStr"}

\* C1: a Read of an endpoint below FIXED_ENDPOINT_COUNT (count - 1 included)
\* goes from the check straight to its return, returns the empty string, and
\* performs no foreign-runtime interaction: no execution context, no host
\* call, no diagnostic.
C1_StaticShortCircuit ==
    \A t \in Threads :
        InStaticRead(t) =>
            /\ pc[t] \in {"L39", "done"}
            /\ trace[t] = <<>>
            /\ env[t] = 0
            /\ hostReply[t] = NoReply
            /\ (pc[t] = "done" => result[t] = <<>>)

C1_Witness ==
    \E t \in Threads :
        /\ pc[t] = "done"
        /\ aPath[t].mEndpointId = fixedEndpointCount - 1
        /\ result[t] = <<>>
        /\ trace[t] = <<>>

\* C2: a Read of an endpoint at or above FIXED_ENDPOINT_COUNT calls the held
\* method on the held handle exactly once (never before line 49, never twice,
\* whatever the host replies), with (endpoint, cluster, attribute) of the path
\* in that order.
C2_ExactlyOneHostCall ==
    \A t \in Threads :
        InDynamicRead(t) =>
            LET calls == {i \in DOMAIN trace[t] : trace[t][i].op = "CallObjectMethod"}
            IN  /\ Cardinality(calls) = IF pc[t] \in BeforeCall THEN 0 ELSE 1
                /\ \A i \in calls :
                      /\ trace[t][i].target =
                             <<mContentAppEndpointManager, mReadAttributeMethod>>
                      /\ trace[t][i].args[1] = aPath[t].mEndpointId
                      /\ AsUnsigned32(trace[t][i].args[2]) = aPath[t].mClusterId
                      /\ AsUnsigned32(trace[t][i].args[3]) = aPath[t].mAttributeId

C2_Witness ==
    \E t \in Threads :
        /\ pc[t] = "done"
        /\ aPath[t].mEndpointId = fixedEndpointCount
        /\ hostReply[t].kind = "exception"
        /\ CountOp(trace[t], "CallObjectMethod") = 1

\* C3: when the host call leaves an exception pending, Read never touches the
\* returned text object, never faults, and returns the empty string with the
\* pending exception cleared.
C3_ExceptionHandledLocally ==
    \A t \in Threads :
        hostReply[t].kind = "exception" =>
            /\ pc[t] \in {"L52", "L54", "L55", "L56", "L58", "done"}
            /\ \A i \in DOMAIN trace[t] : trace[t][i].op \notin TextAccessOps
            /\ (pc[t] = "done" =>
                    /\ result[t] = <<>>
                    /\ ~exceptionPending[t]
                    /\ CountOp(trace[t], "ChipLogError") = 1)

C3_Witness ==
    \E t \in Threads :
        /\ pc[t] = "done"
        /\ hostReply[t].kind = "exception"
        /\ CountOp(trace[t], "ExceptionClear") = 1
        /\ ~exceptionPending[t]

RECURSIVE EncodedLen(_)
EncodedLen(s) ==
    IF s = <<>> THEN 0
    ELSE (IF Head(s) >= 1 /\ Head(s) <= 127 THEN 1 ELSE IF Head(s) <= 2047 THEN 2 ELSE 3)
             + EncodedLen(Tail(s))

\* C4: when the host answers a text and no exception, Read returns all the
\* bytes of that text in the runtime's encoding, none dropped or altered: the
\* text itself when it is 7-bit ASCII, the empty string when it is empty.
C4_TextCopiedVerbatim ==
    \A t \in Threads :
        (pc[t] = "done" /\ hostReply[t].kind = "text") =>
            /\ result[t] = ModifiedUTF8(hostReply[t].text)
            /\ Len(result[t]) = EncodedLen(hostReply[t].text)
            /\ ((\A i \in DOMAIN hostReply[t].text :
                     hostReply[t].text[i] \in 1..127) => result[t] = hostReply[t].text)

C4_Witness ==
    \E t \in Threads :
        /\ pc[t] = "done"
        /\ hostReply[t].kind = "text"
        /\ hostReply[t].text # <<>>
        /\ Len(result[t]) > Len(hostReply[t].text)

\* C5: when the host answers null and no exception is pending, Read completes
\* normally and returns the empty string.
C5_NullReplyReturnsEmpty ==
    \A t \in Threads :
        hostReply[t].kind = "null" =>
            /\ pc[t] # "crashed"
            /\ (pc[t] = "done" => result[t] = <<>>)

\* C6: during a Read a thread holds at most one local reference and one
\* character buffer more than at entry, and when Read returns it holds exactly
\* what it held at entry.
C6_TransientRefsBalanced ==
    \A t \in Threads :
        pc[t] # "idle" =>
            /\ localRefs[t] - entryRefs[t][1] \in {0, 1}
            /\ utfBuffers[t] - entryRefs[t][2] \in {0, 1}
            /\ (pc[t] = "done" =>
                    /\ localRefs[t] = entryRefs[t][1]
                    /\ utfBuffers[t] = entryRefs[t][2])

C6_Witness ==
    \E t \in Threads :
        /\ pc[t] = "done"
        /\ hostReply[t].kind = "text"
        /\ CountOp(trace[t], "DeleteLocalRef") = 1
        /\ localRefs[t] = entryRefs[t][1]

\* C7 as stated: when Read returns, no execution context obtained by that call
\* is still held.
C7_ContextReleasedOnEveryExit ==
    \A t \in Threads : pc[t] = "done" => env[t] = 0

\* C7 amended: a Read that crosses the foreign boundary obtains the execution
\* context of the current thread exactly once, as its first foreign-runtime
\* step, and never releases it: it is still held on every exit path. A Read
\* that does not cross obtains none.
C7_ContextObtainedOncePerCall ==
    \A t \in Threads :
        pc[t] # "idle" =>
            LET n == CountOp(trace[t], "GetEnvForCurrentThread")
            IN  /\ env[t] = n
                /\ n = IF InDynamicRead(t) /\ pc[t] \notin {"L39", "L45"} THEN 1 ELSE 0
                /\ (n = 1 => trace[t][1].op = "GetEnvForCurrentThread")

C7_Witness ==
    \E t \in Threads :
        /\ pc[t] = "done"
        /\ hostReply[t].kind = "exception"
        /\ env[t] = 1

\* C8: each argument of the host call is a jint whose 32 bits, read as
\* unsigned, are the path's identifier; an attribute identifier with the high
\* bit set arrives negative.
C8_BitPatternPreserved ==
    \A t \in Threads :
        \A i \in DOMAIN trace[t] :
            trace[t][i].op = "CallObjectMethod" =>
                LET a == trace[t][i].args
                IN  /\ \A k \in 1..3 : a[k] >= -2147483647 - 1 /\ a[k] <= 2147483647
                    /\ AsUnsigned32(a[1]) = U32(0, aPath[t].mEndpointId)
                    /\ AsUnsigned32(a[2]) = aPath[t].mClusterId
                    /\ AsUnsigned32(a[3]) = aPath[t].mAttributeId
                    /\ (aPath[t].mAttributeId.hi >= 32768 <=> a[3] < 0)

C8_Witness ==
    \E t \in Threads :
        \E i \in DOMAIN trace[t] :
            /\ trace[t][i].op = "CallObjectMethod"
            /\ aPath[t].mAttributeId = U32(65533, 0)
            /\ trace[t][i].args[3] = -196608

\* What Read returns when it runs with no other thread.
ReadAlone(count, p, reply) ==
    IF p.mEndpointId < count THEN {<<>>}
    ELSE IF reply.kind = "exception" THEN {<<>>}
    ELSE IF reply.kind = "text" THEN {ModifiedUTF8(reply.text)}
    ELSE IndeterminateStrings

\* C9: Read never changes the held handle or method id, and under every
\* interleaving of the threads a Read returns what it returns alone for its
\* path and host reply, with its own references balanced.
C9_Stateless ==
    /\ [][/\ mContentAppEndpointManager' = mContentAppEndpointManager
          /\ mReadAttributeMethod' = mReadAttributeMethod]_vars
    /\ [](\A t \in Threads :
              pc[t] = "done" =>
                  /\ result[t] \in ReadAlone(fixedEndpointCount, aPath[t], hostReply[t])
                  /\ localRefs[t] = entryRefs[t][1]
                  /\ utfBuffers[t] = entryRefs[t][2])

C9_Witness ==
    \E t, u \in Threads :
        /\ t # u
        /\ pc[t] = "done"
        /\ hostReply[t].kind = "text"
        /\ pc[u] \in {"L62", "L63", "L64", "L65", "done"}
        /\ hostReply[u].kind = "text"
        /\ hostReply[u].text # hostReply[t].text

\* C10: within a Read the character buffer is never read after it has been
\* released, and it is released before the local reference is deleted.
C10_NoUseAfterRelease ==
    \A t \in Threads :
        \A i, j \in DOMAIN trace[t] :
            (i < j /\ trace[t][i].op = "ReleaseStringUTFChars") =>
                /\ trace[t][j].op \notin BufferReadOps
                /\ trace[t][j].op = "DeleteLocalRef" =>
                       \A k \in DOMAIN trace[t] :
                           trace[t][k].op = "ReleaseStringUTFChars" => k < j

====
